---- MODULE Spec2Model ----
(***************************************************************************)
(* A model of rc-zip's entry readers and drivers:                          *)
(*   - the legacy tokio EntryReader (src/src/reader/tokio/entry_reader),   *)
(*   - the raw entry limiter and the Store decoder (rc-zip-sync/decoder),  *)
(*   - the rc-zip-tokio EntryReader driving an EntryFsm,                   *)
(*   - the synchronous archive driver read_zip_with_size.                  *)
(* One of the four is exercised in a behaviour; `component` says which.    *)
(* Bytes are small naturals ("cells"); the byte widths of the ZIP records  *)
(* are scaled down to one cell per field.                                  *)
(***************************************************************************)
EXTENDS Integers, Sequences, FiniteSets, TLC

(* ------------------------------ bounds -------------------------------- *)
\* Largest payload (compressed_size) of an entry, in cells.
MaxPayload == 2
\* Largest number of cells one upstream read returns.
MaxChunk == 3
\* Largest free capacity of a caller's output buffer.
MaxRoom == 2
\* Largest number of central directory records of an archive.
MaxRecords == 2
\* Largest length of an archive comment, in cells.
MaxComment == 1
\* polls made after an entry reached its end
MaxEofPolls == 2

(* ----------------------- scaled program constants --------------------- *)
\* EntryReader::DEFAULT_BUFFER_SIZE (256 KiB in the code), in cells.
DEFAULT_BUFFER_SIZE == 6
\* Width in bits of the checksum register (u32 in the code).
CrcBits == 3
\* Bits per cell fed to the checksum.
CellBits == 2

Min(a, b) == IF a < b THEN a ELSE b
Take(s, n) == SubSeq(s, 1, Min(n, Len(s)))
Drop(s, n) == SubSeq(s, Min(n, Len(s)) + 1, Len(s))
Range(s) == {s[i] : i \in 1..Len(s)}

(* ------------------------------ CRC ----------------------------------- *)
RECURSIVE Pow2(_)
Pow2(n) == IF n = 0 THEN 1 ELSE 2 * Pow2(n - 1)

CrcMod == Pow2(CrcBits)
\* Generator polynomial x^3 + x + 1, without its leading term.
CrcPoly == 2 + 1

RECURSIVE Xor(_, _)
Xor(a, b) ==
    IF a = 0 THEN b
    ELSE IF b = 0 THEN a
    ELSE (((a % 2) + (b % 2)) % 2) + 2 * Xor(a \div 2, b \div 2)

\* One step of the bit-serial division: shift the register, feed a bit.
CrcBit(reg, bit) ==
    LET top == reg \div Pow2(CrcBits - 1)
        sh  == (reg * 2) % CrcMod
    IN  IF top # bit THEN Xor(sh, CrcPoly) ELSE sh

RECURSIVE CrcCell(_, _, _)
CrcCell(reg, cell, nbits) ==
    IF nbits = 0 THEN reg
    ELSE CrcCell(CrcBit(reg, (cell \div Pow2(nbits - 1)) % 2), cell, nbits - 1)

\* crc32fast::Hasher::new: the register starts all ones.
HasherNew == CrcMod - 1

\* crc32fast::Hasher::update
RECURSIVE HasherUpdate(_, _)
HasherUpdate(reg, bytes) ==
    IF bytes = <<>> THEN reg
    ELSE HasherUpdate(CrcCell(reg, Head(bytes), CellBits), Tail(bytes))

\* crc32fast::Hasher::finalize: the register, inverted.
HasherFinalize(reg) == Xor(reg, CrcMod - 1)

Crc32(bytes) == HasherFinalize(HasherUpdate(HasherNew, bytes))

(* --------------------------- oval::Buffer ----------------------------- *)
\* A buffer is [pos, data]: data are the cells between position and end.
BufferWithCapacity == [pos |-> 0, data |-> <<>>]
BufEnd(b) == b.pos + Len(b.data)
AvailableData(b) == Len(b.data)
AvailableSpace(b) == DEFAULT_BUFFER_SIZE - BufEnd(b)
BufShift(b) == [b EXCEPT !.pos = 0]
\* fill(count) after `bytes` were written into space()
BufFill(b, bytes) ==
    LET cnt == Min(Len(bytes), AvailableSpace(b))
        f   == [b EXCEPT !.data = b.data \o Take(bytes, cnt)]
    IN  IF AvailableSpace(f) < AvailableData(f) + cnt THEN BufShift(f) ELSE f
BufConsume(b, count) ==
    LET cnt == Min(count, AvailableData(b))
        c   == [pos |-> b.pos + cnt, data |-> Drop(b.data, cnt)]
    IN  IF c.pos > DEFAULT_BUFFER_SIZE \div 2 THEN BufShift(c) ELSE c
\* impl io::Read for Buffer: copies out, advances position, never shifts
BufReadLen(b, len) == Min(AvailableData(b), len)
BufRead(b, len) ==
    [pos |-> b.pos + BufReadLen(b, len), data |-> Drop(b.data, BufReadLen(b, len))]


(* ---------------------------- ZIP records ----------------------------- *)
\* Signatures, one cell each: PK\x03\x04 and PK\x07\x08.
SigLFH == CrcMod + 1
SigDD == CrcMod
\* The value one cell holds; a 64-bit size takes two cells, low cell first.
CellBase == Pow2(2 * CellBits)

NoHeader == [flags |-> 0, crc32 |-> 0, uncompressed_size |-> 0]
NoDescriptor == [some |-> FALSE, crc32 |-> 0, compressed_size |-> 0, uncompressed_size |-> 0]
NoMetrics == [crc32 |-> 0, uncompressed_size |-> 0]
NoInner == [compressed_size |-> 0, uncompressed_size |-> 0, crc32 |-> 0, is_zip64 |-> FALSE]

\* LocalFileHeaderRecord::has_data_descriptor: general purpose flag bit 3
HasDataDescriptor(h) == (h.flags \div 8) % 2 = 1

\* The cells of a local file header (the fields the reader uses).
HeaderCells(h) == <<SigLFH, h.flags, h.crc32, h.uncompressed_size>>
HeaderLen == Len(HeaderCells(NoHeader))

\* LocalFileHeaderRecord::parser on Partial input
ParseLocalHeader(data) ==
    IF data = <<>> THEN [tag |-> "Incomplete", header |-> NoHeader, used |-> 0]
    ELSE IF data[1] # SigLFH THEN [tag |-> "Invalid", header |-> NoHeader, used |-> 0]
    ELSE IF Len(data) < HeaderLen THEN [tag |-> "Incomplete", header |-> NoHeader, used |-> 0]
    ELSE [tag |-> "Ok",
          header |-> [flags |-> data[2], crc32 |-> data[3], uncompressed_size |-> data[4]],
          used |-> HeaderLen]

\* A size field: 64-bit (two cells) iff the entry is ZIP64, else 32-bit.
SizeCells(v, z64) == IF z64 THEN <<v % CellBase, v \div CellBase>> ELSE <<v>>
SizeWidth(z64) == IF z64 THEN 2 ELSE 1
ReadSize(data, at, z64) ==
    IF z64 THEN data[at] + CellBase * data[at + 1] ELSE data[at]

DescriptorCells(d, sig, z64) ==
    (IF sig THEN <<SigDD>> ELSE <<>>) \o <<d.crc32>>
        \o SizeCells(d.compressed_size, z64) \o SizeCells(d.uncompressed_size, z64)

\* DataDescriptorRecord::mk_parser(is_zip64): the signature is taken if present
ParseDataDescriptor(z64, data) ==
    IF data = <<>> THEN [tag |-> "Incomplete", descriptor |-> NoDescriptor, used |-> 0]
    ELSE LET off  == IF data[1] = SigDD THEN 1 ELSE 0
             need == off + 1 + 2 * SizeWidth(z64)
         IN  IF Len(data) < need
             THEN [tag |-> "Incomplete", descriptor |-> NoDescriptor, used |-> 0]
             ELSE [tag |-> "Ok",
                   descriptor |-> [some |-> TRUE,
                                   crc32 |-> data[off + 1],
                                   compressed_size |-> ReadSize(data, off + 2, z64),
                                   uncompressed_size |->
                                       ReadSize(data, off + 2 + SizeWidth(z64), z64)],
                   used |-> need]

(* ------------------------- RawEntryReader ----------------------------- *)
\* A limiter that forgets its limit: the read length is the caller's alone.
RawReadLen_Unlimited(remaining, bufLen) == bufLen
\* A limiter is [remaining, inner]; this is what one io::Read::read does.
RawReadLen(remaining, bufLen) == Min(bufLen, remaining)
RawReadN(remaining, inner, bufLen) == BufReadLen(inner, RawReadLen(remaining, bufLen))
RawRead(r, bufLen) ==
    LET n == RawReadN(r.remaining, r.inner, bufLen)
    IN  [n |-> n,
         bytes |-> Take(r.inner.data, n),
         reader |-> [remaining |-> r.remaining - n,
                     inner |-> BufRead(r.inner, RawReadLen(r.remaining, bufLen))]]
\* BufRead::fill_buf: the cells it exposes
RawFillBuf(r) == Take(r.inner.data, Min(r.remaining, AvailableData(r.inner)))
\* BufRead::consume
RawConsume(r, amt) ==
    [remaining |-> r.remaining - amt, inner |-> BufConsume(r.inner, amt)]
\* A Store codec that reads the buffer under the limiter, not the limiter.
StoreRead_PastLimiter(r, bufLen) ==
    [n |-> BufReadLen(r.inner, bufLen),
     bytes |-> Take(r.inner.data, BufReadLen(r.inner, bufLen)),
     reader |-> [remaining |-> r.remaining, inner |-> BufRead(r.inner, bufLen)]]
\* StoreDecoder::read: the Store codec hands the read to its source
StoreRead(r, bufLen) == RawRead(r, bufLen)


(* ------------------------------ state --------------------------------- *)
VARIABLES
    component,          \* which reader or driver this behaviour exercises
    \* the entry and its source
    inner,              \* StoredEntryInner
    method,             \* entry.method()
    stream,             \* the cells the source holds from entry.header_offset on
    rdPos,              \* cells the source has handed out
    rdEof,              \* the source has returned 0 (end of file)
    \* EntryReader / EntryFsm
    state, buffer, eof, remaining, hasher, uncompressed_size,
    header, metrics, descriptor,
    fsm,                \* rc-zip-tokio: "Some" or "None", the Option<EntryFsm> slot
    \* the caller of poll_read
    pc,                 \* "idle", "polling" (inside poll_read) or "panicked"
    buf,                \* the ReadBuf of the current poll: [filled, room]
    result,             \* what the last poll_read returned
    appended,           \* the cells the last poll_read appended to buf
    output,             \* every cell appended to the caller's output so far
    zeroRoom,           \* some poll was given an output buffer with no free capacity
    eofPolls,           \* polls made after the entry had reached its end
    validated,          \* what the Validate step compared, once it ran
    upstream,           \* the read of the source the last step of a poll issued
    \* read_zip_with_size
    file,               \* the cells of the archive the driver reads
    ar,                 \* the ArchiveFsm
    calls,              \* the calls the driver made in its last loop iteration
    ret                 \* what read_zip_with_size returned, once it has

entryVars == <<inner, method, stream>>
sourceVars == <<rdPos, rdEof>>
readerVars == <<state, buffer, eof, remaining, hasher, uncompressed_size,
                header, metrics, descriptor>>
callerVars == <<pc, buf, result, appended, output, zeroRoom, eofPolls>>
syncVars == <<file, ar, calls, ret>>
vars == <<component, entryVars, sourceVars, readerVars, fsm, callerVars, validated, upstream,
          syncVars>>

(* --------------------------- the archives ----------------------------- *)
Payload(n) == [i \in 1..n |-> i]
\* Output buffers a caller passes: empty, or already holding one (zero) byte.
PreFilled == {<<>>, <<0>>}
GoodCrc(n) == Crc32(Payload(n))
\* A checksum that is not the payload's: that of n zero bytes.
BadCrc(n) == Crc32([i \in 1..n |-> 0])
\* (crc32, uncompressed_size) pairs a local header declares: left zero by a
\* streaming writer, right, or with a wrong checksum.
HeaderChoices(n) == {<<0, 0>>, <<GoodCrc(n), n>>, <<BadCrc(n), n>>}
\* ... the header of an entry that is followed by a data descriptor: zero,
\* or a size with a wrong checksum.
StreamedHeaderChoices(n) == {<<0, 0>>, <<BadCrc(n), n>>}
\* ... and a data descriptor: right, wrong checksum, wrong size.
DescriptorChoices(n) == {<<GoodCrc(n), n>>, <<BadCrc(n), n>>, <<GoodCrc(n), n + 1>>}
\* (signature present, ZIP64) of a data descriptor.
DescriptorShapes == {<<TRUE, FALSE>>, <<FALSE, TRUE>>}

\* The uncompressed size the central directory records for an entry of n
\* payload cells: unknown (zero), right or wrong.
InnerSizes(n) == {0, n, n + 1}

\* The entries: [inner, method, stream]. The payload is the compressed_size
\* cells after the header; the start of the next local header follows.
EntriesOfSize(n) ==
    LET plain ==
            {[m |-> m, ic |-> ic, iu |-> iu, h |-> h, z |-> FALSE, rest |-> <<>>] :
                m \in {"Store", "Deflate"}, ic \in {0, GoodCrc(n), BadCrc(n)},
                iu \in InnerSizes(n), h \in {<<0, hc[1], hc[2]>> : hc \in HeaderChoices(n)}}
        withdd ==
            {[m |-> "Store", ic |-> ic, iu |-> iu, h |-> h, z |-> sh[2],
              rest |-> DescriptorCells([crc32 |-> d[1], compressed_size |-> n,
                                        uncompressed_size |-> d[2]], sh[1], sh[2])] :
                ic \in {0, GoodCrc(n), BadCrc(n)}, iu \in InnerSizes(n),
                h \in {<<8, hc[1], hc[2]>> : hc \in StreamedHeaderChoices(n)},
                d \in DescriptorChoices(n), sh \in DescriptorShapes}
    IN  {[inner |-> [compressed_size |-> n, uncompressed_size |-> e.iu,
                     crc32 |-> e.ic, is_zip64 |-> e.z],
          method |-> e.m,
          stream |-> HeaderCells([flags |-> e.h[1], crc32 |-> e.h[2],
                                  uncompressed_size |-> e.h[3]])
                        \o Payload(n) \o e.rest \o <<SigLFH>>] :
            e \in plain \cup withdd}
Entries == UNION {EntriesOfSize(n) : n \in 0..MaxPayload}

NoResult == [kind |-> "None"]
NoArchiveFsm == [state |-> "None"]
NoBuf == [filled |-> <<>>, room |-> 0]
\* A reader that offers the source its whole buffer, not the free part.
OfferedSpace_Capacity(b) == DEFAULT_BUFFER_SIZE
\* ReadBuf::new(buffer.space()), read(ar.space()): the length of the slice a
\* read of the source is given
OfferedSpace(b) == AvailableSpace(b)
\* No read of the source was issued; a read issued into the space of buffer
\* b that returned n cells (-1: the source was not ready).
NoUpstream == [issued |-> FALSE, space |-> 0, pos |-> 0, n |-> 0]
UpstreamRead(b, n) == [issued |-> TRUE, space |-> AvailableSpace(b), pos |-> b.pos, n |-> n]
NotValidated == [ran |-> FALSE, header |-> NoHeader, descriptor |-> NoDescriptor,
                 metrics |-> NoMetrics, expected_crc32 |-> 0, expected_size |-> 0]

\* EntryReader::new: ReadLocalHeader, an empty buffer, the source at header_offset
InitEntry(c) ==
    /\ component = c
    /\ \E e \in Entries : inner = e.inner /\ method = e.method /\ stream = e.stream
    /\ rdPos = 0 /\ rdEof = FALSE
    /\ state = "ReadLocalHeader" /\ buffer = BufferWithCapacity /\ eof = FALSE
    /\ remaining = 0 /\ hasher = HasherNew /\ uncompressed_size = 0
    /\ header = NoHeader /\ metrics = NoMetrics /\ descriptor = NoDescriptor
    /\ fsm = IF c = "tokio" THEN "Some" ELSE "None"
    /\ pc = "idle" /\ buf = NoBuf /\ result = NoResult /\ appended = <<>>
    /\ output = <<>> /\ zeroRoom = FALSE /\ eofPolls = 0 /\ validated = NotValidated
    /\ upstream = NoUpstream
    /\ file = <<>> /\ ar = NoArchiveFsm /\ calls = <<>> /\ ret = NoResult

(* --------------------------- the source ------------------------------- *)
RdLeft == Len(stream) - rdPos
\* What one poll_read of the source into a space of spaceLen cells can
\* return, besides Pending: a chunk, all the space can take, or 0 at
\* (possibly premature) end of file.
RdReads(spaceLen) ==
    IF spaceLen = 0 \/ rdEof \/ RdLeft = 0 THEN {0}
    ELSE (0..Min(Min(spaceLen, RdLeft), MaxChunk)) \cup {Min(spaceLen, RdLeft)}
RdBytes(n) == SubSeq(stream, rdPos + 1, rdPos + n)
RdAdvance(spaceLen, n) ==
    /\ rdPos' = rdPos + n
    /\ rdEof' = (rdEof \/ (n = 0 /\ spaceLen > 0))


(* ------------------- legacy EntryReader::poll_read -------------------- *)
\* poll_read returns `res`: the caller holds the ReadBuf again.
Return(res) == pc' = "idle" /\ result' = res /\ buf' = NoBuf

Ok == [kind |-> "Ok"]
Pending == [kind |-> "Pending"]
ErrUnexpectedEof == [kind |-> "UnexpectedEof"]
ErrInvalidLocalHeader == [kind |-> "InvalidLocalHeader"]
ErrUnsupported(m) == [kind |-> "Unsupported", method |-> m]
ErrWrongSize(e, a) == [kind |-> "WrongSize", expected |-> e, actual |-> a]
ErrWrongChecksum(e, a) == [kind |-> "WrongChecksum", expected |-> e, actual |-> a]
Panic == [kind |-> "Panic"]

\* A get_decoder that hands the Store decoder to every method.
GetDecoder_AnyMethod(m) == [ok |-> TRUE, err |-> NoResult]
\* EntryReader::get_decoder
GetDecoder(m) ==
    IF m = "Store" THEN [ok |-> TRUE, err |-> NoResult]
    ELSE [ok |-> FALSE, err |-> ErrUnsupported(m)]

\* A header or descriptor read that takes a read of zero cells for more data.
ShortRead_Never(n) == FALSE
\* read_bytes == 0 (lines 87 and 197): the source ended short
ShortRead(n) == n = 0

\* The caller calls poll_read. The ReadBuf it passes is first looked at where
\* the decoder is polled with it (DecodeStep), and is drawn there.
PollRead(c) ==
    /\ component = c /\ pc = "idle"
    /\ state = "Done" => eofPolls < MaxEofPolls
    /\ pc' = "polling"
    /\ buf' = NoBuf
    /\ appended' = <<>>
    /\ eofPolls' = IF state = "Done" THEN eofPolls + 1 ELSE eofPolls
    /\ upstream' = NoUpstream
    /\ UNCHANGED <<component, syncVars, entryVars, sourceVars, readerVars, fsm, result, output,
                   zeroRoom, validated>>

\* State::ReadLocalHeader, lines 83-117
ReadLocalHeaderArm ==
    /\ component = "legacy" /\ pc = "polling" /\ state = "ReadLocalHeader"
    /\ \/ \* the source is not ready
          /\ Return(Pending)
          /\ upstream' = UpstreamRead(buffer, -1)
          /\ UNCHANGED <<sourceVars, readerVars>>
       \/ \E n \in RdReads(OfferedSpace(buffer)) :
            LET filledBuf == BufFill(buffer, RdBytes(n))
                parsed == ParseLocalHeader(filledBuf.data)
                decoder == GetDecoder(method)
            IN  /\ RdAdvance(OfferedSpace(buffer), n)
                /\ upstream' = UpstreamRead(buffer, n)
                /\ IF ShortRead(n)
                   THEN /\ Return(ErrUnexpectedEof)
                        /\ UNCHANGED readerVars
                   ELSE IF parsed.tag = "Ok"
                   THEN IF decoder.ok
                        THEN /\ state' = "ReadData"
                             /\ buffer' = BufConsume(filledBuf, parsed.used)
                             /\ remaining' = inner.compressed_size
                             /\ hasher' = HasherNew
                             /\ uncompressed_size' = 0
                             /\ header' = parsed.header
                             /\ UNCHANGED <<eof, metrics, descriptor, pc, buf, result>>
                        ELSE \* `?` leaves the placeholder state behind
                             /\ state' = "Transitioning"
                             /\ buffer' = BufferWithCapacity
                             /\ Return(decoder.err)
                             /\ UNCHANGED <<eof, remaining, hasher, uncompressed_size,
                                            header, metrics, descriptor>>
                   ELSE IF parsed.tag = "Incomplete"
                   THEN /\ buffer' = filledBuf
                        /\ UNCHANGED <<state, eof, remaining, hasher, uncompressed_size,
                                       header, metrics, descriptor, pc, buf, result>>
                   ELSE /\ buffer' = filledBuf
                        /\ Return(ErrInvalidLocalHeader)
                        /\ UNCHANGED <<state, eof, remaining, hasher, uncompressed_size,
                                       header, metrics, descriptor>>
    /\ UNCHANGED <<component, syncVars, entryVars, fsm, appended, output, zeroRoom, eofPolls, validated>>

\* The cells the hasher is fed after a poll wrote n cells (line 171).
HashedSlice(filled, filled_before, n) == SubSeq(filled, 1, n)

\* State::ReadData from line 144 on: the decoder is polled with the caller's
\* buf (holding `pre`, with `room` free cells), over buffer b with eof flag e.
DecodeStep(b, e, pre, room) ==
    LET rd == StoreRead([remaining |-> remaining, inner |-> b], room)
        filled_before == Len(pre)
        filled == pre \o rd.bytes
    IN  /\ eof' = e
        /\ zeroRoom' = (zeroRoom \/ room = 0)
        /\ IF rd.n = 0
           THEN /\ metrics' = [crc32 |-> HasherFinalize(hasher),
                               uncompressed_size |-> uncompressed_size]
                \* into_inner(): ReadDataDescriptor keeps the buffer, Validate has none
                /\ buffer' = IF HasDataDescriptor(header)
                             THEN rd.reader.inner ELSE BufferWithCapacity
                /\ state' = IF HasDataDescriptor(header)
                            THEN "ReadDataDescriptor" ELSE "Validate"
                /\ descriptor' = NoDescriptor
                /\ remaining' = 0 /\ hasher' = HasherNew /\ uncompressed_size' = 0
                /\ UNCHANGED <<header, pc, buf, result, appended, output>>
           ELSE /\ uncompressed_size' = uncompressed_size + rd.n
                /\ hasher' = HasherUpdate(hasher, HashedSlice(filled, filled_before, rd.n))
                /\ buffer' = rd.reader.inner
                /\ remaining' = rd.reader.remaining
                /\ appended' = rd.bytes
                /\ output' = output \o rd.bytes
                /\ Return(Ok)
                /\ UNCHANGED <<state, header, metrics, descriptor>>

\* A ReadData that reads the source although data is still buffered.
NeedsRead_WithDataBuffered(b, e) == ~e
\* An upstream read is due in ReadData (line 126).
NeedsRead(b, e) == ~e /\ AvailableData(b) = 0
\* The buffer the read is issued into (lines 127-131).
ReadDataSpace(b) == IF AvailableSpace(b) = 0 THEN BufShift(b) ELSE b

\* State::ReadData, lines 118-175
ReadDataArm ==
    /\ component = "legacy" /\ pc = "polling" /\ state = "ReadData"
    /\ \/ /\ NeedsRead(buffer, eof)
          /\ buffer' = ReadDataSpace(buffer)
          /\ Return(Pending)
          /\ upstream' = UpstreamRead(ReadDataSpace(buffer), -1)
          /\ UNCHANGED <<sourceVars, state, eof, remaining, hasher, uncompressed_size,
                         header, metrics, descriptor, appended, output, zeroRoom>>
       \/ /\ NeedsRead(buffer, eof)
          /\ \E n \in RdReads(OfferedSpace(ReadDataSpace(buffer))),
                pre \in PreFilled, room \in 0..MaxRoom :
                /\ RdAdvance(OfferedSpace(ReadDataSpace(buffer)), n)
                /\ upstream' = UpstreamRead(ReadDataSpace(buffer), n)
                /\ IF n = 0
                   THEN DecodeStep(ReadDataSpace(buffer), TRUE, pre, room)
                   ELSE DecodeStep(BufFill(ReadDataSpace(buffer), RdBytes(n)), eof,
                                   pre, room)
       \/ /\ ~NeedsRead(buffer, eof)
          /\ \E pre \in PreFilled, room \in 0..MaxRoom :
                DecodeStep(buffer, eof, pre, room)
          /\ upstream' = NoUpstream
          /\ UNCHANGED sourceVars
    /\ UNCHANGED <<component, syncVars, entryVars, fsm, eofPolls, validated>>

\* A reader that always parses the 32-bit form of the descriptor.
MkParser_Always32(i) == FALSE
\* DataDescriptorRecord::mk_parser(self.inner.is_zip64), line 184: the width
\* of the size fields the parser is built for
MkParser(i) == i.is_zip64
\* State::ReadDataDescriptor, lines 176-205
ReadDataDescriptorArm ==
    /\ component = "legacy" /\ pc = "polling" /\ state = "ReadDataDescriptor"
    /\ LET parsed == ParseDataDescriptor(MkParser(inner), buffer.data)
       IN  \/ /\ parsed.tag = "Ok"
              /\ upstream' = NoUpstream
              /\ buffer' = BufferWithCapacity   \* dropped with the state
              /\ descriptor' = parsed.descriptor
              /\ state' = "Validate"
              /\ UNCHANGED <<sourceVars, eof, remaining, hasher, uncompressed_size,
                             header, metrics, pc, buf, result>>
           \/ /\ parsed.tag = "Incomplete"
              /\ Return(Pending)
              /\ upstream' = UpstreamRead(buffer, -1)
              /\ UNCHANGED <<sourceVars, readerVars>>
           \/ /\ parsed.tag = "Incomplete"
              /\ \E n \in RdReads(OfferedSpace(buffer)) :
                    /\ RdAdvance(OfferedSpace(buffer), n)
                    /\ upstream' = UpstreamRead(buffer, n)
                    /\ IF ShortRead(n)
                       THEN /\ Return(ErrUnexpectedEof)
                            /\ UNCHANGED readerVars
                       ELSE /\ buffer' = BufFill(buffer, RdBytes(n))
                            /\ UNCHANGED <<state, eof, remaining, hasher,
                                           uncompressed_size, header, metrics,
                                           descriptor, pc, buf, result>>
    /\ UNCHANGED <<component, syncVars, entryVars, fsm, appended, output, zeroRoom, eofPolls, validated>>

\* The checksum precedence with the data descriptor put first.
ExpectedCrc32_DescriptorFirst(i, d, h) ==
    IF d.some THEN d.crc32
    ELSE IF i.crc32 # 0 THEN i.crc32
    ELSE h.crc32
\* lines 211-217
ExpectedCrc32(i, d, h) ==
    IF i.crc32 # 0 THEN i.crc32
    ELSE IF d.some THEN d.crc32
    ELSE h.crc32
\* lines 219-225
ExpectedSize(i, d, h) ==
    IF i.uncompressed_size # 0 THEN i.uncompressed_size
    ELSE IF d.some THEN d.uncompressed_size
    ELSE h.uncompressed_size
\* A Validate that compares the checksum even when none is expected.
ValidateOutcome_ZeroCrcChecked(expected_size, expected_crc32, m) ==
    IF expected_size # m.uncompressed_size
    THEN ErrWrongSize(expected_size, m.uncompressed_size)
    ELSE IF expected_crc32 # m.crc32
    THEN ErrWrongChecksum(expected_crc32, m.crc32)
    ELSE NoResult
\* lines 227-245: the error Validate returns, or NoResult
ValidateOutcome(expected_size, expected_crc32, m) ==
    IF expected_size # m.uncompressed_size
    THEN ErrWrongSize(expected_size, m.uncompressed_size)
    ELSE IF expected_crc32 # 0 /\ expected_crc32 # m.crc32
    THEN ErrWrongChecksum(expected_crc32, m.crc32)
    ELSE NoResult

\* State::Validate, lines 206-247
ValidateArm ==
    /\ component = "legacy" /\ pc = "polling" /\ state = "Validate"
    /\ LET expected_crc32 == ExpectedCrc32(inner, descriptor, header)
           expected_size == ExpectedSize(inner, descriptor, header)
           outcome == ValidateOutcome(expected_size, expected_crc32, metrics)
       IN  /\ validated' = [ran |-> TRUE, header |-> header, descriptor |-> descriptor,
                            metrics |-> metrics, expected_crc32 |-> expected_crc32,
                            expected_size |-> expected_size]
           /\ IF outcome # NoResult
              THEN /\ Return(outcome)
                   /\ UNCHANGED readerVars
              ELSE /\ state' = "Done"
                   /\ header' = NoHeader /\ metrics' = NoMetrics
                   /\ descriptor' = NoDescriptor
                   /\ UNCHANGED <<buffer, eof, remaining, hasher, uncompressed_size,
                                  pc, buf, result>>
    /\ upstream' = NoUpstream
    /\ UNCHANGED <<component, syncVars, entryVars, sourceVars, fsm, appended, output, zeroRoom,
                   eofPolls>>

\* A Done arm that reports the end of the entry as an error.
DoneArm_UnexpectedEof ==
    /\ component = "legacy" /\ pc = "polling" /\ state = "Done"
    /\ Return(ErrUnexpectedEof)
    /\ UNCHANGED <<component, syncVars, entryVars, sourceVars, readerVars, fsm, appended, output,
                   zeroRoom, eofPolls, validated, upstream>>
\* State::Done, line 248
DoneArm ==
    /\ component = "legacy" /\ pc = "polling" /\ state = "Done"
    /\ Return(Ok)
    /\ UNCHANGED <<component, syncVars, entryVars, sourceVars, readerVars, fsm, appended, output,
                   zeroRoom, eofPolls, validated, upstream>>

\* State::Transitioning, line 249: unreachable!()
TransitioningArm ==
    /\ component = "legacy" /\ pc = "polling" /\ state = "Transitioning"
    /\ pc' = "panicked" /\ result' = Panic /\ buf' = NoBuf
    /\ UNCHANGED <<component, syncVars, entryVars, sourceVars, readerVars, fsm, appended, output,
                   zeroRoom, eofPolls, validated, upstream>>

(* ------------------------ EntryFsm (rc_zip::fsm) ---------------------- *)
\* The sans-I/O entry machine, a record of the reader's fields.
FsmOf == [state |-> state, buffer |-> buffer, eof |-> eof, remaining |-> remaining,
          hasher |-> hasher, uncompressed_size |-> uncompressed_size,
          header |-> header, metrics |-> metrics, descriptor |-> descriptor]
SetFsm(f) ==
    /\ state' = f.state /\ buffer' = f.buffer /\ eof' = f.eof
    /\ remaining' = f.remaining /\ hasher' = f.hasher
    /\ uncompressed_size' = f.uncompressed_size /\ header' = f.header
    /\ metrics' = f.metrics /\ descriptor' = f.descriptor
\* The slot is emptied: the machine is dropped; `state` keeps the state it
\* was dropped in (or "Done").
DropFsm(last) ==
    /\ state' = last /\ buffer' = BufferWithCapacity /\ eof' = FALSE
    /\ remaining' = 0 /\ hasher' = HasherNew /\ uncompressed_size' = 0
    /\ header' = NoHeader /\ metrics' = NoMetrics /\ descriptor' = NoDescriptor

\* EntryFsm::wants_read
FsmWantsRead(f) ==
    CASE f.state = "ReadLocalHeader" -> TRUE
      [] f.state = "ReadData" -> NeedsRead(f.buffer, f.eof)
      [] f.state = "ReadDataDescriptor" -> TRUE
      [] OTHER -> FALSE
\* EntryFsm::space: shifts when the buffer has no room left
FsmSpace(f) == [f EXCEPT !.buffer = ReadDataSpace(@)]
\* EntryFsm::fill: a fill of zero cells records the end of the source
FsmFill(f, bytes) ==
    IF bytes = <<>> THEN [f EXCEPT !.eof = TRUE]
    ELSE [f EXCEPT !.buffer = BufFill(@, bytes)]

FsmContinue(f, bytes) == [res |-> "Continue", fsm |-> f, bytes |-> bytes, err |-> NoResult]
FsmErr(f, e) == [res |-> "Err", fsm |-> f, bytes |-> <<>>, err |-> e]

\* EntryFsm::process(out), out having `room` cells; m and i are the entry's
\* method and StoredEntryInner.
RECURSIVE FsmProcess(_, _, _, _)
FsmProcess(f, room, m, i) ==
    CASE f.state = "ReadLocalHeader" ->
            LET parsed == ParseLocalHeader(f.buffer.data)
            IN  IF parsed.tag = "Ok"
                THEN IF GetDecoder(m).ok
                     THEN FsmProcess([f EXCEPT !.state = "ReadData",
                                               !.buffer = BufConsume(@, parsed.used),
                                               !.remaining = i.compressed_size,
                                               !.hasher = HasherNew,
                                               !.uncompressed_size = 0,
                                               !.header = parsed.header], room, m, i)
                     ELSE FsmErr(f, GetDecoder(m).err)
                ELSE IF parsed.tag = "Incomplete"
                THEN IF f.eof THEN FsmErr(f, ErrUnexpectedEof) ELSE FsmContinue(f, <<>>)
                ELSE FsmErr(f, ErrInvalidLocalHeader)
      [] f.state = "ReadData" ->
            LET rd == StoreRead([remaining |-> f.remaining, inner |-> f.buffer], room)
            IN  IF rd.n = 0 /\ (f.remaining = 0 \/ (f.eof /\ AvailableData(f.buffer) = 0))
                THEN FsmProcess([f EXCEPT
                        !.state = IF HasDataDescriptor(f.header)
                                  THEN "ReadDataDescriptor" ELSE "Validate",
                        !.metrics = [crc32 |-> HasherFinalize(f.hasher),
                                     uncompressed_size |-> f.uncompressed_size],
                        !.remaining = 0, !.hasher = HasherNew,
                        !.uncompressed_size = 0], room, m, i)
                ELSE FsmContinue([f EXCEPT !.buffer = rd.reader.inner,
                                           !.remaining = rd.reader.remaining,
                                           !.hasher = HasherUpdate(@, rd.bytes),
                                           !.uncompressed_size = @ + rd.n], rd.bytes)
      [] f.state = "ReadDataDescriptor" ->
            LET parsed == ParseDataDescriptor(i.is_zip64, f.buffer.data)
            IN  IF parsed.tag = "Ok"
                THEN FsmProcess([f EXCEPT !.state = "Validate",
                                          !.buffer = BufferWithCapacity,
                                          !.descriptor = parsed.descriptor], room, m, i)
                ELSE IF f.eof THEN FsmErr(f, ErrUnexpectedEof) ELSE FsmContinue(f, <<>>)
      [] OTHER ->
            LET outcome == ValidateOutcome(ExpectedSize(i, f.descriptor, f.header),
                                           ExpectedCrc32(i, f.descriptor, f.header),
                                           f.metrics)
            IN  IF outcome # NoResult THEN FsmErr(f, outcome)
                ELSE [res |-> "Done", fsm |-> f, bytes |-> <<>>, err |-> NoResult]

(* --------------- rc-zip-tokio EntryReader::poll_read ------------------ *)
ErrIo == [kind |-> "Io"]

\* this.fsm.take() found the slot empty (lines 47-50)
TokioPollEmpty ==
    /\ component = "tokio" /\ pc = "idle" /\ fsm = "None"
    /\ state = "Done" => eofPolls < MaxEofPolls
    /\ result' = Ok /\ appended' = <<>>
    /\ eofPolls' = IF state = "Done" THEN eofPolls + 1 ELSE eofPolls
    /\ UNCHANGED <<component, syncVars, entryVars, sourceVars, readerVars, fsm, pc, buf, output,
                   zeroRoom, validated, upstream>>

\* lines 65-74: process() on machine f, then the slot is refilled or left empty
TokioProcess(f, room) ==
    LET p == FsmProcess(f, room, method, inner)
    IN  /\ zeroRoom' = (zeroRoom \/ room = 0)
        /\ IF p.res = "Err"
           THEN /\ fsm' = "None" /\ DropFsm(f.state)
                /\ result' = p.err /\ appended' = <<>>
                /\ UNCHANGED output
           ELSE IF p.res = "Continue"
           THEN /\ fsm' = "Some" /\ SetFsm(p.fsm)
                /\ result' = Ok /\ appended' = p.bytes
                /\ output' = output \o p.bytes
           ELSE /\ fsm' = "None" /\ DropFsm("Done")
                /\ result' = Ok /\ appended' = <<>>
                /\ UNCHANGED output

\* The source's poll_read is not ready, or fails: `ready!` and `?` return with
\* the machine taken out of the slot (lines 47-56).
TokioPollNotRead ==
    /\ component = "tokio" /\ pc = "idle" /\ fsm = "Some"
    /\ FsmWantsRead(FsmOf)
    /\ \E r \in {Pending, ErrIo} : result' = r
    /\ fsm' = "None" /\ DropFsm(state)
    /\ appended' = <<>>
    /\ UNCHANGED <<component, syncVars, entryVars, sourceVars, pc, buf, output, zeroRoom, eofPolls, validated, upstream>>

\* lines 52-74 with a read that completes
TokioPollRead ==
    /\ component = "tokio" /\ pc = "idle" /\ fsm = "Some"
    /\ FsmWantsRead(FsmOf)
    /\ \E n \in RdReads(AvailableSpace(FsmSpace(FsmOf).buffer)), room \in 0..MaxRoom :
          /\ RdAdvance(AvailableSpace(FsmSpace(FsmOf).buffer), n)
          /\ TokioProcess(FsmFill(FsmSpace(FsmOf), RdBytes(n)), room)
    /\ UNCHANGED <<component, syncVars, entryVars, pc, buf, eofPolls, validated, upstream>>

\* lines 61-74: the machine does not want a read
TokioPollNoRead ==
    /\ component = "tokio" /\ pc = "idle" /\ fsm = "Some"
    /\ ~FsmWantsRead(FsmOf)
    /\ \E room \in 0..MaxRoom : TokioProcess(FsmOf, room)
    /\ UNCHANGED <<component, syncVars, entryVars, sourceVars, pc, buf, eofPolls, validated, upstream>>

TokioNext ==
    \/ TokioPollEmpty
    \/ TokioPollNotRead
    \/ TokioPollRead
    \/ TokioPollNoRead

LegacyPoll == PollRead("legacy")

LegacyNext ==
    \/ LegacyPoll
    \/ ReadLocalHeaderArm
    \/ ReadDataArm
    \/ ReadDataDescriptorArm
    \/ ValidateArm
    \/ DoneArm
    \/ TransitioningArm

(* ---------------- RawEntryReader used through io::Read ----------------- *)
\* RawEntryReader::new(buffer, entry_size) over an empty buffer; the source
\* holds the payload and then the start of what follows it.
InitRaw ==
    /\ component = "raw"
    /\ \E size \in 0..MaxPayload :
          /\ inner = [NoInner EXCEPT !.compressed_size = size]
          /\ stream = Payload(size) \o <<SigDD, SigLFH>>
          /\ remaining = size
    /\ method = "Store" /\ rdPos = 0 /\ rdEof = FALSE
    /\ state = "ReadData" /\ buffer = BufferWithCapacity /\ eof = FALSE
    /\ hasher = HasherNew /\ uncompressed_size = 0
    /\ header = NoHeader /\ metrics = NoMetrics /\ descriptor = NoDescriptor
    /\ fsm = "None"
    /\ pc = "idle" /\ buf = NoBuf /\ result = NoResult /\ appended = <<>>
    /\ output = <<>> /\ zeroRoom = FALSE /\ eofPolls = 0 /\ validated = NotValidated
    /\ upstream = NoUpstream
    /\ file = <<>> /\ ar = NoArchiveFsm /\ calls = <<>> /\ ret = NoResult

RawOf == [remaining |-> remaining, inner |-> buffer]
rawFrame == <<component, syncVars, entryVars, rdEof, state, eof, hasher,
              uncompressed_size, header, metrics, descriptor, fsm, buf, zeroRoom,
              eofPolls, validated, upstream>>

\* get_mut(), then the owner reads from the source into the buffer and fills
\* it (as entry_reader/mod.rs lines 125-139 do)
RawFill ==
    /\ component = "raw" /\ pc = "idle"
    /\ \E n \in 1..Min(Min(AvailableSpace(ReadDataSpace(buffer)), RdLeft), MaxChunk) :
          /\ buffer' = BufFill(ReadDataSpace(buffer), RdBytes(n))
          /\ rdPos' = rdPos + n
          /\ result' = [kind |-> "Fill", n |-> n]
    /\ UNCHANGED <<rawFrame, remaining, pc, appended, output>>

\* io::Read::read(buf) with buf.len() = len
RawReadCall ==
    /\ component = "raw" /\ pc = "idle"
    /\ \E len \in 0..MaxRoom :
          LET r == RawRead(RawOf, len)
          IN  /\ remaining' = r.reader.remaining
              /\ buffer' = r.reader.inner
              /\ appended' = r.bytes
              /\ output' = output \o r.bytes
              /\ result' = [kind |-> "Read", n |-> r.n, len |-> len, before |-> remaining]
    /\ UNCHANGED <<rawFrame, rdPos, pc>>

\* BufRead::fill_buf, then consume(amt) of no more than it exposed
RawBufReadCall ==
    /\ component = "raw" /\ pc = "idle"
    /\ \E amt \in 0..Len(RawFillBuf(RawOf)) :
          LET r == RawConsume(RawOf, amt)
          IN  /\ remaining' = r.remaining
              /\ buffer' = r.inner
              /\ appended' = Take(RawFillBuf(RawOf), amt)
              /\ output' = output \o Take(RawFillBuf(RawOf), amt)
              /\ result' = [kind |-> "Consume", n |-> amt,
                            len |-> Len(RawFillBuf(RawOf)), before |-> remaining]
    /\ UNCHANGED <<rawFrame, rdPos, pc>>

\* RawEntryReader::into_inner: the reader is gone, the buffer handed back
RawIntoInner ==
    /\ component = "raw" /\ pc = "idle"
    /\ pc' = "taken"
    /\ result' = [kind |-> "IntoInner", data |-> buffer.data]
    /\ UNCHANGED <<rawFrame, rdPos, remaining, buffer, appended, output>>

RawNext ==
    \/ RawFill
    \/ RawReadCall
    \/ RawBufReadCall
    \/ RawIntoInner

(* --------------------- ArchiveFsm (rc_zip::fsm) ----------------------- *)
\* Cells of an archive: entry data and the signatures PK\x01\x02, PK\x05\x06,
\* PK\x06\x07, PK\x06\x06; the 0xFFFFFFFF sentinel; a corrupted cell.
LocalCell == 4 * CrcMod
SigCdh == LocalCell + 1
SigEocd == LocalCell + 2
SigLoc == LocalCell + 3
SigEocd64 == LocalCell + 4
Zip64Sentinel == LocalCell + 5
BadCell == LocalCell + 6

\* Record lengths in cells: EOCD is signature, records, directory offset,
\* comment length; the locator and the ZIP64 EOCD are signature and offset.
EocdLen == Len(<<SigEocd, 0, 0, 0>>)
LocLen == Len(<<SigLoc, 0>>)
Eocd64Len == Len(<<SigEocd64, 0>>)
\* The backward read window (65,557 bytes in the format).
EocdWindow == EocdLen + MaxComment

Cells(n, c) == [i \in 1..n |-> c]
\* An archive: nl cells of entries, nrec directory records, the ZIP64
\* records if z64, the EOCD and a comment of clen cells.
ArchiveFile(nl, nrec, z64, clen) ==
    Cells(nl, LocalCell) \o Cells(nrec, SigCdh)
        \o (IF z64 THEN <<SigEocd64, nl, SigLoc, nl + nrec>> ELSE <<>>)
        \o <<SigEocd, nrec, IF z64 THEN Zip64Sentinel ELSE nl, clen>>
        \o Cells(clen, LocalCell)
\* The file with cell k corrupted (k = 0: intact), or its last cell cut off
\* (k past the end).
Damage(f, k) ==
    IF k = 0 THEN f
    ELSE IF k > Len(f) THEN Take(f, Len(f) - 1)
    ELSE [f EXCEPT ![k] = BadCell]
Archives ==
    UNION {{Damage(ArchiveFile(nl, nrec, z64, clen), k) :
                k \in 0..(Len(ArchiveFile(nl, nrec, z64, clen)) + 1)} :
            nl \in 0..1, nrec \in 0..MaxRecords, z64 \in BOOLEAN, clen \in 0..MaxComment}

\* ArchiveFsm::new(size)
ArchiveFsmNew(size) ==
    [state |-> "ReadEocd", buffer |-> BufferWithCapacity, size |-> size,
     base |-> size - Min(size, EocdWindow), got |-> 0,
     eocdOff |-> 0, nrec |-> 0, parsed |-> 0]
\* The machine moves on to read at offset `at`.
ArGoto(a, st, at) ==
    [a EXCEPT !.state = st, !.buffer = BufferWithCapacity, !.base = at, !.got = 0]

NoOffset == [some |-> FALSE, offset |-> 0]
\* ArchiveFsm::wants_read
ArWantsRead(a) ==
    IF a.state = "ReadCentralDirectory" /\ a.parsed = a.nrec THEN NoOffset
    ELSE [some |-> TRUE, offset |-> a.base + a.got]
\* ArchiveFsm::space
ArSpace(a) == [a EXCEPT !.buffer = ReadDataSpace(@)]
\* ArchiveFsm::fill
ArFill(a, bytes) ==
    [a EXCEPT !.buffer = BufFill(@, bytes), !.got = @ + Len(bytes)]

ArContinue(a) == [res |-> "Continue", ar |-> a, err |-> NoResult]
ArErr(a, kind) == [res |-> "Err", ar |-> a, err |-> [kind |-> kind]]

\* The positions of EOCD records in the window whose comment fits the file.
EocdCandidates(data) ==
    {j \in 1..Len(data) :
        /\ data[j] = SigEocd
        /\ j + EocdLen - 1 <= Len(data)
        /\ j + EocdLen - 1 + data[j + EocdLen - 1] <= Len(data)}
Last(S) == CHOOSE j \in S : \A k \in S : k <= j

\* Central directory headers parsed back to back from `data`.
RECURSIVE ParseDirectory(_, _, _)
ParseDirectory(data, parsed, nrec) ==
    IF parsed = nrec \/ data = <<>> THEN [ok |-> TRUE, parsed |-> parsed, rest |-> data]
    ELSE IF Head(data) # SigCdh THEN [ok |-> FALSE, parsed |-> parsed, rest |-> data]
    ELSE ParseDirectory(Tail(data), parsed + 1, nrec)

\* ArchiveFsm::process
ArProcess(a) ==
    LET data == a.buffer.data
    IN  CASE a.state = "ReadEocd" ->
                IF a.got < Min(a.size, EocdWindow) THEN ArContinue(a)
                ELSE IF EocdCandidates(data) = {} THEN ArErr(a, "NotAZipFile")
                ELSE LET j == Last(EocdCandidates(data))
                         at == a.base + j - 1
                         found == [a EXCEPT !.eocdOff = at, !.nrec = data[j + 1]]
                     IN  IF data[j + 2] = Zip64Sentinel
                         THEN IF at < LocLen THEN ArErr(a, "InvalidEocd")
                              ELSE ArContinue(ArGoto(found, "ReadEocd64Locator", at - LocLen))
                         ELSE IF data[j + 2] > at THEN ArErr(a, "InvalidEocd")
                         ELSE ArContinue(ArGoto(found, "ReadCentralDirectory", data[j + 2]))
          [] a.state = "ReadEocd64Locator" ->
                IF a.got < LocLen THEN ArContinue(a)
                ELSE IF data[1] # SigLoc \/ data[2] + Eocd64Len > a.base
                THEN ArErr(a, "InvalidEocd")
                ELSE ArContinue(ArGoto(a, "ReadEocd64", data[2]))
          [] a.state = "ReadEocd64" ->
                IF a.got < Eocd64Len THEN ArContinue(a)
                ELSE IF data[1] # SigEocd64 \/ data[2] > a.base
                THEN ArErr(a, "InvalidEocd")
                ELSE ArContinue(ArGoto(a, "ReadCentralDirectory", data[2]))
          [] OTHER ->
                LET dir == ParseDirectory(data, a.parsed, a.nrec)
                    next == [a EXCEPT !.parsed = dir.parsed,
                                      !.buffer = BufConsume(@, Len(data) - Len(dir.rest))]
                IN  IF ~dir.ok THEN ArErr(a, "InvalidCentralHeader")
                    ELSE IF dir.parsed = a.nrec
                    THEN [res |-> "Done", ar |-> [next EXCEPT !.state = "Done"],
                          err |-> NoResult]
                    ELSE ArContinue(next)

(* --------------------- read_zip_with_size (sync) ---------------------- *)
\* read_zip_with_size(size), the machine just built: size is the file's
\* length (as ReadZip::read_zip passes it), or the file is one cell short of it
InitSync ==
    /\ component = "sync"
    /\ file \in Archives
    /\ \E missing \in 0..1 : ar = ArchiveFsmNew(Len(file) + missing)
    /\ calls = <<>> /\ ret = NoResult
    /\ inner = NoInner /\ method = "Store" /\ stream = <<>>
    /\ rdPos = 0 /\ rdEof = FALSE
    /\ state = "Done" /\ buffer = BufferWithCapacity /\ eof = FALSE
    /\ remaining = 0 /\ hasher = HasherNew /\ uncompressed_size = 0
    /\ header = NoHeader /\ metrics = NoMetrics /\ descriptor = NoDescriptor
    /\ fsm = "None"
    /\ pc = "idle" /\ buf = NoBuf /\ result = NoResult /\ appended = <<>>
    /\ output = <<>> /\ zeroRoom = FALSE /\ eofPolls = 0 /\ validated = NotValidated
    /\ upstream = NoUpstream

\* HasCursor::cursor_at for &[u8] and Vec<u8>: the cells from `offset` on
CursorAt(f, offset) == SubSeq(f, offset + 1, Len(f))
\* What Read::read on a cursor into a space of spaceLen cells can return
\* besides an error: 0 at the end (or into no space), else a chunk.
CursorReads(cursor, spaceLen) ==
    IF spaceLen = 0 \/ cursor = <<>> THEN {0}
    ELSE 1..Min(Min(spaceLen, Len(cursor)), MaxChunk)
\* The offset the driver opens its cursor at, for the offset wants_read gave.
ReadOffset(offset) == offset
\* A driver that fills and processes after a read of zero cells too.
FillsAfter_Always(n) == TRUE
\* The driver fills after a read of n cells (lines 51-54).
FillsAfter(n) == n # 0

CallWantsRead(w) == [op |-> "wants_read", some |-> w.some, offset |-> w.offset]
CallRead(at, space, n) == [op |-> "read", at |-> at, space |-> space, n |-> n]
CallFill(n) == [op |-> "fill", n |-> n]
CallProcess(res) == [op |-> "process", res |-> res]

\* lines 60-71: process() on machine a, after the calls `log`
SyncProcess(a, log) ==
    LET p == ArProcess(a)
    IN  /\ calls' = Append(log, CallProcess(p.res))
        /\ ar' = p.ar
        /\ ret' = IF p.res = "Done" THEN [kind |-> "Ok", archive |-> p.ar.nrec]
                  ELSE IF p.res = "Err" THEN p.err
                  ELSE NoResult

syncFrame == <<component, entryVars, sourceVars, readerVars, fsm, callerVars,
               validated, upstream, file>>

\* One iteration of the loop of lines 45-72, the read succeeding
SyncIterateRead ==
    /\ component = "sync" /\ ret = NoResult
    /\ ArWantsRead(ar).some
    /\ LET w == ArWantsRead(ar)
           at == ReadOffset(w.offset)
           space == AvailableSpace(ArSpace(ar).buffer)
       IN  \E n \in CursorReads(CursorAt(file, at), OfferedSpace(ArSpace(ar).buffer)) :
              LET log == <<CallWantsRead(w), CallRead(at, space, n)>>
              IN  IF FillsAfter(n)
                  THEN SyncProcess(ArFill(ArSpace(ar), Take(CursorAt(file, at), n)),
                                   Append(log, CallFill(n)))
                  ELSE /\ calls' = log
                       /\ ret' = ErrUnexpectedEof
                       /\ ar' = ArSpace(ar)
    /\ UNCHANGED syncFrame

\* ... the read failing (line 56)
SyncIterateReadErr ==
    /\ component = "sync" /\ ret = NoResult
    /\ ArWantsRead(ar).some
    /\ LET w == ArWantsRead(ar)
           at == ReadOffset(w.offset)
           space == AvailableSpace(ArSpace(ar).buffer)
       IN  /\ calls' = <<CallWantsRead(w), CallRead(at, space, -1)>>
           /\ ret' = ErrIo
           /\ ar' = ArSpace(ar)
    /\ UNCHANGED syncFrame

\* ... wants_read() returning None
SyncIterateNoRead ==
    /\ component = "sync" /\ ret = NoResult
    /\ ~ArWantsRead(ar).some
    /\ SyncProcess(ar, <<CallWantsRead(ArWantsRead(ar))>>)
    /\ UNCHANGED syncFrame

SyncNext ==
    \/ SyncIterateRead
    \/ SyncIterateReadErr
    \/ SyncIterateNoRead

Init == InitEntry("legacy") \/ InitEntry("tokio") \/ InitRaw \/ InitSync
Next == LegacyNext \/ TokioNext \/ RawNext \/ SyncNext
Spec == Init /\ [][Next]_vars

(* ============================ properties ============================== *)
\* The payload of the entry as the source holds it, and the cells the source
\* has handed out beyond it.
PayloadOf == SubSeq(stream, HeaderLen + 1, HeaderLen + inner.compressed_size)
PastPayload == SubSeq(stream, HeaderLen + inner.compressed_size + 1, rdPos)
\* The source ended before it had handed out the whole payload.
SourceCutShort == rdEof /\ rdPos < HeaderLen + inner.compressed_size
InLegacy == component = "legacy"
InTokio == component = "tokio"

\* C1: a legacy reader that reaches Done has appended exactly the expected
\* number of bytes and, when a checksum is expected, bytes with that checksum,
\* whatever the caller's buffers already held.
C1_DoneMatchesExpected ==
    (InLegacy /\ state = "Done") =>
        /\ Len(output) = validated.expected_size
        /\ validated.expected_crc32 # 0 => Crc32(output) = validated.expected_crc32

\* C2: the values Validate expects are the central directory's when nonzero,
\* else the data descriptor's when one was read, else the local header's,
\* for the checksum and for the size independently.
C2_ExpectedPrecedence ==
    validated.ran =>
        /\ validated.expected_crc32 =
              (CASE inner.crc32 # 0 -> inner.crc32
                 [] inner.crc32 = 0 /\ validated.descriptor.some -> validated.descriptor.crc32
                 [] OTHER -> validated.header.crc32)
        /\ validated.expected_size =
              (CASE inner.uncompressed_size # 0 -> inner.uncompressed_size
                 [] inner.uncompressed_size = 0 /\ validated.descriptor.some ->
                        validated.descriptor.uncompressed_size
                 [] OTHER -> validated.header.uncompressed_size)
\* Validate ran on an entry whose checksum comes from the descriptor (which
\* disagrees with the local header) and whose size comes from the directory.
C2_Witness ==
    /\ validated.ran
    /\ inner.crc32 = 0 /\ inner.uncompressed_size # 0
    /\ validated.descriptor.some
    /\ validated.descriptor.crc32 # validated.header.crc32
    /\ validated.descriptor.uncompressed_size # inner.uncompressed_size

\* C3: Validate fails with WrongSize (expected, actual) when the sizes differ;
\* else with WrongChecksum (expected, actual) when a nonzero checksum is
\* expected and differs; else the reader is Done.
C3_ValidateOutcome ==
    InLegacy =>
        /\ validated.ran =>
              LET es == validated.expected_size
                  as == validated.metrics.uncompressed_size
                  ec == validated.expected_crc32
                  ac == validated.metrics.crc32
              IN  IF es # as
                  THEN state = "Validate" /\ result = ErrWrongSize(es, as)
                  ELSE IF ec # 0 /\ ec # ac
                  THEN state = "Validate" /\ result = ErrWrongChecksum(ec, ac)
                  ELSE state = "Done"
        /\ result.kind \in {"WrongSize", "WrongChecksum"} => validated.ran
\* Done was reached with no checksum expected although the computed one is
\* not zero.
C3_Witness ==
    /\ InLegacy /\ state = "Done" /\ pc = "idle"
    /\ validated.expected_crc32 = 0 /\ validated.metrics.crc32 # 0
    /\ validated.expected_size > 0

\* The reader is at the end of its entry: the legacy reader in Done, the
\* rc-zip-tokio reader with its slot emptied by a finished machine.
AtEof ==
    \/ InLegacy /\ state = "Done"
    \/ InTokio /\ fsm = "None" /\ state = "Done"
\* C4: once at the end of the entry, a reader stays there, and every poll
\* returns Ok with nothing appended.
C4_IdempotentEof ==
    [][AtEof => /\ AtEof'
                /\ output' = output
                /\ pc' = "idle" => (result' = Ok /\ appended' = <<>>)]_vars
\* Polls were made after the end and have returned.
C4_WitnessLegacy ==
    InLegacy /\ state = "Done" /\ pc = "idle" /\ eofPolls = MaxEofPolls /\ output # <<>>
C4_WitnessTokio ==
    InTokio /\ AtEof /\ eofPolls = MaxEofPolls /\ output # <<>>

\* A step in which a poll_read returns.
PollReturns ==
    \/ InLegacy /\ pc = "polling" /\ pc' = "idle"
    \/ InTokio
\* C5: a poll that returns Pending leaves the decoding state as it was: the
\* machine in place, its state, buffered cells, eof flag, checksum and counts.
C5_PendingKeepsState ==
    [][(PollReturns /\ result' = Pending) =>
            /\ fsm' = fsm /\ state' = state /\ buffer'.data = buffer.data
            /\ eof' = eof /\ remaining' = remaining /\ hasher' = hasher
            /\ uncompressed_size' = uncompressed_size
            /\ header' = header /\ output' = output]_vars
\* The legacy half of C5 alone.
C5_LegacyPendingKeepsState ==
    [][(InLegacy /\ pc = "polling" /\ pc' = "idle" /\ result' = Pending) =>
            /\ state' = state /\ buffer'.data = buffer.data
            /\ eof' = eof /\ remaining' = remaining /\ hasher' = hasher
            /\ uncompressed_size' = uncompressed_size
            /\ header' = header /\ output' = output]_vars

\* C6: a read of the limiter returns at most min(buffer length, remaining)
\* cells and lowers `remaining` by what it returned; at remaining 0 it returns
\* 0; over all calls no more than entry_size cells are delivered.
C6_LimiterBounds ==
    component = "raw" =>
        /\ remaining >= 0
        /\ remaining + Len(output) = inner.compressed_size
        /\ output = Take(stream, Len(output))
        /\ result.kind = "Read" =>
              /\ result.n <= Min(result.len, result.before)
              /\ Len(appended) = result.n
              /\ remaining = result.before - result.n
              /\ result.before = 0 => result.n = 0
\* A read into a buffer with room, at remaining 0, with cells past the payload
\* waiting in the inner buffer.
C6_Witness ==
    /\ component = "raw" /\ result.kind = "Read"
    /\ result.before = 0 /\ result.len > 0
    /\ inner.compressed_size = MaxPayload
    /\ AvailableData(buffer) > 0

\* C7: when the limiter is taken apart at the end of ReadData, the buffer it
\* gives back holds exactly the cells read past the payload, and only payload
\* cells were taken out through the limiter.
C7_IntoInnerKeepsTail ==
    [][(InLegacy /\ state = "ReadData" /\ state' = "ReadDataDescriptor") =>
            /\ buffer'.data = PastPayload'
            /\ output' = Take(PayloadOf, Len(output'))]_vars
\* C7 for readers never polled with a full output buffer.
C7_IntoInnerKeepsTailWithRoom ==
    [][(InLegacy /\ ~zeroRoom' /\ state = "ReadData" /\ state' = "ReadDataDescriptor") =>
            /\ buffer'.data = PastPayload'
            /\ output' = Take(PayloadOf, Len(output'))]_vars

C9_UnsupportedAtDecodeStart ==
    InLegacy =>
        /\ method # "Store" =>
              /\ output = <<>>
              /\ state \in {"ReadLocalHeader", "Transitioning"}
        /\ result.kind = "Unsupported" =>
              /\ method # "Store" /\ result = ErrUnsupported(method)
              /\ state = "Transitioning"
              /\ rdPos >= HeaderLen
        /\ (state = "Transitioning") = (result.kind \in {"Unsupported", "Panic"})
\* The error has been returned for a Deflate entry.
C9_Witness ==
    InLegacy /\ pc = "idle" /\ result = ErrUnsupported("Deflate") /\ rdPos >= HeaderLen

\* The calls of one loop iteration of read_zip_with_size, by position.
IsCall(k, op) == k <= Len(calls) /\ calls[k].op = op
\* C10: each iteration of the driver asks wants_read; on Some(offset) it
\* reads once, at exactly that offset, into the machine's space, ends with
\* UnexpectedEof on a read of 0, and otherwise fills exactly the count read
\* and then processes once; on None it only processes. It returns when
\* process says Done (the archive) or fails (the error), and goes on otherwise.
C10_DriverProtocol ==
    component = "sync" =>
        /\ calls = <<>> => ret = NoResult
        /\ calls # <<>> =>
              /\ IsCall(1, "wants_read")
              /\ IF calls[1].some
                 THEN /\ IsCall(2, "read")
                      /\ calls[2].at = calls[1].offset
                      /\ calls[2].n <= calls[2].space
                      /\ IF calls[2].n > 0
                         THEN /\ Len(calls) = 4
                              /\ IsCall(3, "fill") /\ calls[3].n = calls[2].n
                              /\ IsCall(4, "process")
                         ELSE /\ Len(calls) = 2
                              /\ ret = IF calls[2].n = 0 THEN ErrUnexpectedEof ELSE ErrIo
                 ELSE Len(calls) = 2 /\ IsCall(2, "process")
              /\ IsCall(Len(calls), "process") =>
                    LET res == calls[Len(calls)].res
                    IN  /\ res = "Continue" => ret = NoResult
                        /\ res = "Done" => ret = [kind |-> "Ok", archive |-> ar.nrec]
                        /\ res = "Err" => ret.kind \notin {"None", "Ok"}
\* The driver returned a ZIP64 archive after an iteration that read, filled
\* and processed.
C10_Witness ==
    /\ component = "sync" /\ ret.kind = "Ok" /\ ret.archive = MaxRecords
    /\ Len(calls) = 4 /\ calls[2].n > 0 /\ calls[1].offset > 0
    /\ SigEocd64 \in Range(file)
C10_WitnessEof ==
    component = "sync" /\ ret = ErrUnexpectedEof /\ Len(calls) = 2

\* C11: a read of zero cells where more are needed is UnexpectedEof: the
\* driver returns it without fill or process; the legacy reader in
\* ReadLocalHeader, or in ReadDataDescriptor with an incomplete descriptor,
\* returns it and stays in its state with its buffer as it was.
C11_ShortReadIsUnexpectedEof ==
    [][/\ (InLegacy /\ pc = "polling" /\ state \in {"ReadLocalHeader", "ReadDataDescriptor"}
              /\ upstream'.issued /\ upstream'.n = 0) =>
            /\ pc' = "idle" /\ result' = ErrUnexpectedEof
            /\ state' = state /\ buffer' = buffer /\ output' = output
       /\ (component = "sync" /\ IsCall(2, "read")' /\ calls'[2].n = 0) =>
            /\ ret' = ErrUnexpectedEof
            /\ Len(calls') = 2
            /\ ar'.buffer.data = ar.buffer.data /\ ar'.state = ar.state]_vars
\* The source ended inside a data descriptor and the poll returned the error.
C11_Witness ==
    /\ InLegacy /\ pc = "idle" /\ state = "ReadDataDescriptor"
    /\ upstream.issued /\ upstream.n = 0 /\ rdEof
    /\ result = ErrUnexpectedEof /\ AvailableData(buffer) > 0
C11_WitnessHeader ==
    /\ InLegacy /\ pc = "idle" /\ state = "ReadLocalHeader"
    /\ upstream.issued /\ upstream.n = 0 /\ rdEof
    /\ result = ErrUnexpectedEof /\ AvailableData(buffer) > 0
C11_WitnessDriver ==
    /\ component = "sync" /\ ret = ErrUnexpectedEof
    /\ IsCall(2, "read") /\ calls[2].n = 0 /\ calls[2].space > 0

\* The buffer b keeps available_data() + available_space() within capacity.
BufferWithinCapacity(b) ==
    /\ b.pos >= 0 /\ AvailableData(b) >= 0 /\ AvailableSpace(b) >= 0
    /\ AvailableData(b) + AvailableSpace(b) <= DEFAULT_BUFFER_SIZE
\* C12: the buffers of the entry reader and of the archive driver stay within
\* their capacity; a fill is never larger than the space the read was offered,
\* and no cell read is lost or consumed twice: the cells the source handed
\* out are the header consumed, the cells delivered and the cells buffered.
C12_BufferInvariant ==
    /\ InLegacy =>
          /\ BufferWithinCapacity(buffer)
          /\ (upstream.issued /\ upstream.n > 0) => upstream.n <= upstream.space
          /\ state = "ReadLocalHeader" => buffer.data = Take(stream, rdPos)
          /\ (state = "ReadData" \/ (state = "ReadDataDescriptor" /\ ~zeroRoom)) =>
                Take(stream, rdPos) = Take(stream, HeaderLen) \o output \o buffer.data
    /\ component = "sync" =>
          /\ BufferWithinCapacity(ar.buffer)
          /\ IsCall(3, "fill") => (1 <= calls[3].n /\ calls[3].n <= calls[2].space)
\* A read filled a buffer to its capacity.
C12_Witness ==
    /\ InLegacy /\ state = "ReadData" /\ upstream.issued
    /\ upstream.n = upstream.space /\ upstream.n = DEFAULT_BUFFER_SIZE
    /\ AvailableSpace(buffer) = 0 /\ AvailableData(buffer) > 0 /\ output # <<>>
C12_WitnessDriver ==
    /\ component = "sync" /\ IsCall(3, "fill") /\ calls[3].n = MaxChunk
    /\ AvailableData(ar.buffer) > calls[3].n

\* A step of the legacy reader's ReadData arm.
ReadDataStep == InLegacy /\ pc = "polling" /\ state = "ReadData"
\* C13: ReadData ends only when no forward progress is possible: the payload
\* is exhausted, or the source is at its end with nothing buffered; and it
\* ends in ReadDataDescriptor iff local-header flag bit 3 is set, else in
\* Validate, with no descriptor.
C13_ReadDataEndsWhenExhausted ==
    [][(ReadDataStep /\ state' # "ReadData") =>
            /\ remaining = 0 \/ (eof' /\ AvailableData(buffer) = 0)
            /\ state' = IF HasDataDescriptor(header) THEN "ReadDataDescriptor" ELSE "Validate"
            /\ descriptor' = NoDescriptor]_vars
\* C13 for readers never polled with a full output buffer.
C13_ReadDataEndsWhenExhaustedWithRoom ==
    [][(ReadDataStep /\ ~zeroRoom' /\ state' # "ReadData") =>
            /\ remaining = 0 \/ (eof' /\ AvailableData(buffer) = 0)
            /\ state' = IF HasDataDescriptor(header) THEN "ReadDataDescriptor" ELSE "Validate"
            /\ descriptor' = NoDescriptor]_vars

\* C14: through ReadData the hasher has been fed exactly the cells appended
\* to the caller's output and the counter is their number; so are the
\* checksum and size ReadData ends with.
C14_HasherFollowsOutput ==
    InLegacy =>
        /\ state = "ReadData" =>
              /\ hasher = HasherUpdate(HasherNew, output)
              /\ uncompressed_size = Len(output)
        /\ state \in {"ReadDataDescriptor", "Validate"} =>
              /\ metrics.crc32 = Crc32(output)
              /\ metrics.uncompressed_size = Len(output)
\* The counter half of C14 alone.
C14_CounterFollowsOutput ==
    InLegacy =>
        /\ state = "ReadData" => uncompressed_size = Len(output)
        /\ state \in {"ReadDataDescriptor", "Validate"} =>
              metrics.uncompressed_size = Len(output)

\* C15: a ReadData step reads the source iff the buffer holds no data and eof
\* is false; eof becomes true exactly when such a read returns zero cells and
\* is never reset; the step that sets eof finds nothing buffered and ends
\* ReadData, so that no ReadData step is taken, and no read issued by one,
\* with eof true.
C15_EofFlag ==
    [][/\ ReadDataStep =>
            /\ upstream'.issued = (AvailableData(buffer) = 0 /\ ~eof)
            /\ eof' = (eof \/ (upstream'.issued /\ upstream'.n = 0))
            /\ eof' => /\ AvailableData(buffer) = 0
                       /\ state' # "ReadData" /\ appended' = <<>>
            /\ ~eof
       /\ InLegacy => (eof => eof')]_vars
\* ReadData went on after the source had ended inside the payload: a later
\* step issued no read.
C15_Witness ==
    /\ InLegacy /\ eof /\ rdEof /\ state \in {"ReadDataDescriptor", "Validate"}
    /\ ~upstream.issued /\ output # <<>> /\ Len(output) < inner.compressed_size

\* C16: no read of the source is issued into a zero-length space while the
\* buffer has room to reclaim by a shift.
C16_ShiftBeforeFill ==
    (InLegacy /\ upstream.issued) => ~(upstream.space = 0 /\ upstream.pos > 0)
\* C16 in ReadData alone.
C16_ShiftBeforeFillInReadData ==
    [][(ReadDataStep /\ upstream'.issued) => upstream'.space > 0]_vars

\* C17: in ReadDataDescriptor the buffered data is parsed first, with the
\* 64-bit form iff inner.is_zip64; the source is read in a step iff that
\* parse is incomplete; a successful parse reads nothing and moves to
\* Validate holding Some(descriptor), the descriptor the parse produced.
\* When every poll had room, that descriptor is the one the archive holds
\* after the payload.
DescriptorStep == InLegacy /\ pc = "polling" /\ state = "ReadDataDescriptor"
DescriptorAt == HeaderLen + inner.compressed_size
C17_DescriptorParsedFirst ==
    [][DescriptorStep =>
         LET parsed == ParseDataDescriptor(inner.is_zip64, buffer.data)
         IN  /\ upstream'.issued <=> parsed.tag = "Incomplete"
             /\ parsed.tag = "Ok" =>
                    /\ state' = "Validate"
                    /\ descriptor' = parsed.descriptor /\ descriptor'.some
                    /\ rdPos' = rdPos
             /\ parsed.tag = "Incomplete" =>
                    /\ state' = "ReadDataDescriptor" /\ descriptor' = NoDescriptor
             /\ (state' = "Validate" /\ ~zeroRoom') =>
                    \E sig \in BOOLEAN :
                        LET cells == DescriptorCells(descriptor', sig, inner.is_zip64)
                        IN  cells = SubSeq(stream, DescriptorAt + 1,
                                           DescriptorAt + Len(cells))]_vars
\* A ZIP64 descriptor without signature was parsed in a reader whose polls
\* all had room, after a read of the source in ReadDataDescriptor.
C17_Witness ==
    /\ InLegacy /\ pc = "polling" /\ state = "Validate" /\ ~zeroRoom
    /\ descriptor.some /\ inner.is_zip64 /\ descriptor.uncompressed_size > 0
C17_WitnessRead ==
    /\ InLegacy /\ pc = "polling" /\ state = "ReadDataDescriptor"
    /\ upstream.issued /\ upstream.n > 0 /\ AvailableData(buffer) > 0

\* C18: in the rc-zip-tokio reader a poll_read whose output buffer has free
\* capacity returns Ready(Ok) with nothing appended only when the entry
\* machine has reached Done.
C18_ZeroBytesOnlyWhenDone ==
    (InTokio /\ ~zeroRoom /\ result = Ok /\ appended = <<>>) => state = "Done"
\* ... the same for the polls that found the slot empty alone.
C18_ZeroBytesFromEmptySlot ==
    [][(InTokio /\ fsm = "None" /\ result' = Ok /\ appended' = <<>>)
            => state = "Done"]_vars

\* C19: in the rc-zip-tokio reader the fsm slot is empty only after
\* process() returned Done.
C19_SlotEmptyOnlyAfterDone ==
    (InTokio /\ fsm = "None") => state = "Done"
\* ... so that after a poll_read returned an error, no later poll_read
\* returns Ready(Ok) with nothing appended.
IsError(r) == r.kind \notin {"None", "Ok", "Pending"}
C19_NoCleanEndAfterError ==
    [][(InTokio /\ IsError(result)) => ~(result' = Ok /\ appended' = <<>>)]_vars

\* C20: the legacy reader is never in State::Transitioning when poll_read is
\* called, and the unreachable!() arm is never executed.
C20_TransitioningNeverSeen ==
    InLegacy => /\ pc # "panicked"
                /\ pc = "idle" => state # "Transitioning"
\* ... the arm itself.
C20_UnreachableNeverRun ==
    InLegacy => result # Panic

\* The order of the states of an entry reader; 0 for the placeholder.
StateRank(s) ==
    CASE s = "ReadLocalHeader" -> 1
      [] s = "ReadData" -> 2
      [] s = "ReadDataDescriptor" -> 3
      [] s = "Validate" -> 4
      [] s = "Done" -> 5
      [] OTHER -> 0
\* The reader as EntryReader::new leaves it.
EntryStart ==
    /\ state = "ReadLocalHeader" /\ buffer = BufferWithCapacity
    /\ rdPos = 0 /\ ~eof /\ output = <<>>
\* One step of the reader keeps to the order of the states.
StateOrder ==
    /\ StateRank(state') # 0
    /\ StateRank(state') >= StateRank(state)
    /\ state' # state =>
          \/ state = "ReadLocalHeader" /\ state' = "ReadData"
          \/ state = "ReadData" /\ state' \in {"ReadDataDescriptor", "Validate"}
          \/ state = "ReadDataDescriptor" /\ state' = "Validate"
          \/ state = "Validate" /\ state' = "Done"
    /\ (state' = "Done" /\ state # "Done") =>
          LET es == ExpectedSize(inner, descriptor, header)
              ec == ExpectedCrc32(inner, descriptor, header)
          IN  /\ state = "Validate"
              /\ es = metrics.uncompressed_size
              /\ ec # 0 => ec = metrics.crc32
    /\ (pc = "polling" /\ pc' = "idle"
            /\ result'.kind \in {"WrongSize", "WrongChecksum"}) =>
          state = "Validate" /\ state' = "Validate"
    /\ state = "Done" => state' = "Done"
\* C21: every step of the legacy reader keeps the state within
\* ReadLocalHeader, ReadData, (ReadDataDescriptor,) Validate, Done, in that
\* order and without a step back; Done is entered only from Validate with
\* the size and checksum checks passed; WrongSize and WrongChecksum are
\* raised only in Validate; Done is never left.
C21_ForwardOnly ==
    [][InLegacy => StateOrder]_vars
\* C21 for the entries whose method get_decoder supports.
C21_ForwardOnlySupported ==
    [][(InLegacy /\ GetDecoder(method).ok) => StateOrder]_vars
\* C21, the start: a reader that was never polled is in ReadLocalHeader with
\* an empty buffer and its source at the header.
C21_StartsAtHeader ==
    (InLegacy /\ pc = "idle" /\ result = NoResult) => EntryStart

====
